---- MODULE Spec2Model ----
(***************************************************************************)
(* State-machine model of display_qceff_table.py: main() reads a QCEFF     *)
(* table (a CSV file), prints a summary table with one line per quantity   *)
(* and, with --details, one detail block per quantity.                     *)
(*                                                                         *)
(* Python str values are TLA+ strings; a CSV row is a sequence of strings  *)
(* (row[k] of the code is row[k+1] here); standard output is the sequence  *)
(* of the lines printed so far.                                            *)
(***************************************************************************)
EXTENDS Integers, Sequences, FiniteSets, TLC

VARIABLES
    filename,     \* args.csv_file
    details,      \* args.details
    fs,           \* the file at that path: [status, rows]
    pc,           \* position of main()
    table_data,   \* result of read_qceff_table
    out,          \* lines printed to standard output
    i,            \* index (1-based) of the next row of the running loop
    locals,       \* display_summary_table's per-row locals, last iteration
    exc,          \* str(e) of the exception being handled
    exit_code     \* process exit status, -1 while main() runs

vars == <<filename, details, fs, pc, table_data, out, i, locals, exc, exit_code>>

----------------------------------------------------------------------------
(* Bounds of the model *)

\* most data rows of a generated multi-row table
MaxRows == 2
\* most blanks put around each value of a probit group
MaxPad == 1

----------------------------------------------------------------------------
(* Python str operations *)

Lowercase == "abcdefghijklmnopqrstuvwxyz"
Uppercase == "ABCDEFGHIJKLMNOPQRSTUVWXYZ"
Whitespace == {" ", "\t"}

CharAt(s, k) == SubSeq(s, k, k)

\* c * n
RECURSIVE PyRepeat(_, _)
PyRepeat(c, n) ==
    IF n <= 0 THEN ""
    ELSE LET half == PyRepeat(c, n \div 2)
         IN  IF n % 2 = 0 THEN half \o half ELSE half \o half \o c

\* the character map of a case conversion
CaseMap(from, to) ==
    [c \in {CharAt(from, k) : k \in 1..Len(from)} |->
        CharAt(to, CHOOSE k \in 1..Len(from) : CharAt(from, k) = c)]

ToUpper == CaseMap(Lowercase, Uppercase)
ToLower == CaseMap(Uppercase, Lowercase)

\* the characters of s mapped one by one (by halves, to keep the recursion shallow)
RECURSIVE MapStr(_, _)
MapStr(s, map) ==
    IF s = "" THEN ""
    ELSE IF Len(s) = 1 THEN (IF s \in DOMAIN map THEN map[s] ELSE s)
    ELSE MapStr(SubSeq(s, 1, Len(s) \div 2), map)
         \o MapStr(SubSeq(s, Len(s) \div 2 + 1, Len(s)), map)

\* s.upper(), s.lower()
PyUpper(s) == MapStr(s, ToUpper)
PyLower(s) == MapStr(s, ToLower)

RECURSIVE LStrip(_)
LStrip(s) ==
    IF s # "" /\ CharAt(s, 1) \in Whitespace THEN LStrip(SubSeq(s, 2, Len(s))) ELSE s

RECURSIVE RStrip(_)
RStrip(s) ==
    IF s # "" /\ CharAt(s, Len(s)) \in Whitespace THEN RStrip(SubSeq(s, 1, Len(s) - 1)) ELSE s

\* s.strip()
PyStrip(s) == RStrip(LStrip(s))

\* s.replace(old, new), old not empty: every non-overlapping occurrence,
\* left to right
RECURSIVE PyReplace(_, _, _)
PyReplace(s, old, new) ==
    LET at == {k \in 1..(Len(s) - Len(old) + 1) : SubSeq(s, k, k + Len(old) - 1) = old}
    IN  IF at = {} THEN s
        ELSE LET first == CHOOSE k \in at : \A m \in at : k <= m
             IN  SubSeq(s, 1, first - 1) \o new
                 \o PyReplace(SubSeq(s, first + Len(old), Len(s)), old, new)

\* s[:n]
PySliceTo(s, n) == IF Len(s) <= n THEN s ELSE SubSeq(s, 1, n)

\* f"{s:<w}": padded on the right to at least w characters, never cut
PyLJust(s, w) == s \o PyRepeat(" ", w - Len(s))

\* row[k] if len(row) > k else default
FieldOr(row, k, default) == IF Len(row) > k THEN row[k + 1] ELSE default

Rule80 == PyRepeat("=", 80)
Rule144 == PyRepeat("=", 144)

----------------------------------------------------------------------------
(* read_qceff_table *)

IndexError == "list index out of range"

NoTable == [version |-> "", headers |-> <<>>, data |-> <<>>]

\* open() fails for a missing or unreadable file; rows[0][0] and rows[1]
\* raise IndexError when the CSV has no first field or no second row.
read_qceff_table(file, name) ==
    IF file.status = "missing"
    THEN [raised |-> "FileNotFoundError",
          msg |-> "[Errno 2] No such file or directory: '" \o name \o "'",
          value |-> NoTable]
    ELSE IF file.status = "denied"
    THEN [raised |-> "PermissionError",
          msg |-> "[Errno 13] Permission denied: '" \o name \o "'",
          value |-> NoTable]
    ELSE LET rows == file.rows
         IN  IF Len(rows) < 1 \/ Len(rows[1]) < 1 \/ Len(rows) < 2
             THEN [raised |-> "IndexError", msg |-> IndexError, value |-> NoTable]
             ELSE [raised |-> "", msg |-> "",
                   value |-> [version |-> rows[1][1],
                              headers |-> rows[2],
                              data |-> SubSeq(rows, 3, Len(rows))]]

----------------------------------------------------------------------------
(* display_summary_table *)

SummaryHeader ==
    PyLJust("QUANTITY", 30) \o " " \o PyLJust("PROBIT_INFL", 30) \o " "
    \o PyLJust("PROBIT_STATE", 30) \o " " \o PyLJust("PROBIT_EXT", 30) \o " "
    \o PyLJust("OBS_INC_INFO", 20)

SummaryDashes ==
    PyRepeat("-", 30) \o " " \o PyRepeat("-", 30) \o " " \o PyRepeat("-", 30)
    \o " " \o PyRepeat("-", 30) \o " " \o PyRepeat("-", 20)

\* the cut made at 20 characters, not 18
Truncate_Keep20(x) == IF Len(x) > 20 THEN PySliceTo(x, 20) \o ".." ELSE x

\* x[:18] + '..' if len(x) > 20 else x
Truncate(x) == IF Len(x) > 20 THEN PySliceTo(x, 18) \o ".." ELSE x

\* flag.strip().upper() == 'TRUE' or flag.strip() == '.true.'
is_bounded(flag) == PyUpper(PyStrip(flag)) = "TRUE" \/ PyStrip(flag) = ".true."

lower_text(lower) ==
    LET lower_str == PyStrip(lower)
    IN  IF lower_str = "" \/ PyLower(lower_str) = "none" \/ lower_str = "-888888"
        THEN "-inf" ELSE lower_str

\* the upper bound compared with 888888, the sentinel the data would use
upper_text_PositiveSentinel(upper) ==
    LET upper_str == PyStrip(upper)
    IN  IF upper_str = "" \/ PyLower(upper_str) = "none" \/ upper_str = "888888"
        THEN "inf" ELSE upper_str

upper_text(upper) ==
    LET upper_str == PyStrip(upper)
    IN  IF upper_str = "" \/ PyLower(upper_str) = "none" \/ upper_str = "-888888"
        THEN "inf" ELSE upper_str

\* the label compared as it is, neither stripped nor upper-cased
is_normal_Exact(dist) == dist = "NORMAL_DISTRIBUTION"

\* dist.strip().upper() == 'NORMAL_DISTRIBUTION'
is_normal(dist) == PyUpper(PyStrip(dist)) = "NORMAL_DISTRIBUTION"

format_dist(dist0, bounded_below, bounded_above, lower, upper) ==
    LET dist == PyReplace(dist0, "BOUNDED_NORMAL_RH_DISTRIBUTION", "BNRH_DISTRIBUTION")
        dist_short == Truncate(dist)
        left_bracket == IF is_bounded(bounded_below) THEN "[" ELSE "("
        right_bracket == IF is_bounded(bounded_above) THEN "]" ELSE ")"
    IN  IF is_normal(dist)
        THEN dist_short
        ELSE dist_short \o " " \o left_bracket \o lower_text(lower) \o ","
             \o upper_text(upper) \o right_bracket

\* the probit group whose distribution label is row[k]
probit_column(row, k) ==
    format_dist(FieldOr(row, k, "N/A"), FieldOr(row, k + 1, ""), FieldOr(row, k + 2, ""),
                FieldOr(row, k + 3, ""), FieldOr(row, k + 4, ""))

qty_display_name(name) == PyReplace(name, "QTY_", "")

\* the locals of one iteration of "for row in data" (row[0] exists)
summary_locals(row) ==
    [qty_name |-> qty_display_name(row[1]),
     probit_infl |-> probit_column(row, 5),
     probit_state |-> probit_column(row, 10),
     probit_ext |-> probit_column(row, 15),
     obs_inc_info |-> Truncate(FieldOr(row, 20, "N/A"))]

\* the quantity column 20 wide
summary_line_NarrowQuantity(l) ==
    PyLJust(l.qty_name, 20) \o " " \o PyLJust(l.probit_infl, 30) \o " "
    \o PyLJust(l.probit_state, 30) \o " " \o PyLJust(l.probit_ext, 30) \o " "
    \o PyLJust(l.obs_inc_info, 20)

summary_line(l) ==
    PyLJust(l.qty_name, 30) \o " " \o PyLJust(l.probit_infl, 30) \o " "
    \o PyLJust(l.probit_state, 30) \o " " \o PyLJust(l.probit_ext, 30) \o " "
    \o PyLJust(l.obs_inc_info, 20)

NoLocals ==
    [qty_name |-> "", probit_infl |-> "", probit_state |-> "", probit_ext |-> "",
     obs_inc_info |-> ""]

----------------------------------------------------------------------------
(* display_quantity_info *)

\* A print of the block: its text, and the row index it reads (-1: none).
Fixed(t) == [t |-> t, k |-> -1]

BoundPrints(k) ==
    << [t |-> "  Bounded Below: ", k |-> k], [t |-> "  Bounded Above: ", k |-> k + 1],
       [t |-> "  Lower Bound:   ", k |-> k + 2], [t |-> "  Upper Bound:   ", k |-> k + 3] >>

DetailPrints(qty_name) ==
    << Fixed(""), Fixed(Rule80), Fixed("QUANTITY: " \o qty_name), Fixed(Rule80),
       Fixed(""), Fixed("OBS ERROR INFO:") >> \o BoundPrints(1)
    \o << Fixed(""), Fixed("PROBIT INFLATION:"), [t |-> "  Dist Type:     ", k |-> 5] >>
    \o BoundPrints(6)
    \o << Fixed(""), Fixed("PROBIT STATE:"), [t |-> "  Dist Type:     ", k |-> 10] >>
    \o BoundPrints(11)
    \o << Fixed(""), Fixed("PROBIT EXTENDED STATE:"), [t |-> "  Dist Type:     ", k |-> 15] >>
    \o BoundPrints(16)
    \o << Fixed(""), Fixed("OBS INC INFO:"), [t |-> "  Filter Kind:   ", k |-> 20] >>
    \o BoundPrints(21)

\* The lines the block prints, and whether row[k] raised IndexError on the way:
\* the prints before the first one that reads past the row's end are made.
display_quantity_info(qty_name, row) ==
    LET prints == DetailPrints(qty_name)
        bad == {n \in 1..Len(prints) : prints[n].k >= Len(row)}
        last == IF bad = {} THEN Len(prints)
                ELSE (CHOOSE n \in bad : \A m \in bad : n <= m) - 1
    IN  [raised |-> bad # {},
         lines |-> [n \in 1..last |->
                      IF prints[n].k < 0 THEN prints[n].t
                      ELSE prints[n].t \o row[prints[n].k + 1]]]

----------------------------------------------------------------------------
(* Inputs: the command line and the file it names *)

Pad(s, n) == PyRepeat(" ", n) \o s \o PyRepeat(" ", n)

Dists ==
    {"NORMAL_DISTRIBUTION", "normal_distribution", "BOUNDED_NORMAL_RH_DISTRIBUTION",
     "UNIFORM_DISTRIBUTION", "PARTICLE_FILTER_DISTRIBUTION"}
Flags == {"TRUE", "true", ".true.", ".TRUE.", "FALSE"}
Bounds == {"", "None", "-888888", "888888", "5.0"}
QtyNames ==
    {"QTY_TEMPERATURE", "TEMPERATURE", "QTY_SEA_QTY_ICE", "MY_QTY_VALUE", "QTY_", "",
     "QTY_SEAICE_AGREG_CONCENTRATION_CATEGORY"}
ObsKinds ==
    {"BOUNDED_NORMAL_RHF", "UNBOUNDED_RHF_FILTER_", "UNBOUNDED_RHF_FILTER_X",
     "ENSEMBLE_ADJUSTMENT_KALMAN_FILTER"}

VersionRow == <<"QCEFF table version: 1", "", "">>
HeaderRow == <<"QTY", "bounded_below", "bounded_above", "lower_bound", "upper_bound">>

NormalGroup == <<"NORMAL_DISTRIBUTION", ".false.", ".false.", "-888888", "-888888">>
BnrhGroup == <<"BOUNDED_NORMAL_RH_DISTRIBUTION", ".true.", "FALSE", "-888888", "5.0">>

GammaGroup == <<"GAMMA_DISTRIBUTION", "TRUE", ".true.", "0", "888888">>

\* a complete row of the version 1 schema: 25 fields
FullRow(qty, g1, g2, g3, kind) ==
    <<qty, ".true.", ".false.", "0", "-888888">> \o g1 \o g2 \o g3
    \o <<kind, ".true.", ".true.", "0", "1">>

\* the first n fields of a row
Ragged(row, n) == SubSeq(row, 1, n)

\* one complete row; the three probit groups carry the chosen values
FormatRows ==
    {FullRow("QTY_STATE_VARIABLE",
             <<Pad(d, n), Pad(b, n), Pad(a, n), Pad(l, n), Pad(u, n)>>,
             <<Pad(d, n), Pad(a, n), Pad(b, n), Pad(u, n), Pad(l, n)>>,
             <<d, b, a, l, u>>,
             "BOUNDED_NORMAL_RHF") :
        <<d, b, a, l, u, n>> \in Dists \X Flags \X Flags \X Bounds \X Bounds \X (0..MaxPad)}

\* one row of every length from 0 to 25 fields
RaggedRows ==
    {Ragged(FullRow(q, BnrhGroup, NormalGroup, GammaGroup, k), n) :
        <<q, k, n>> \in QtyNames \X ObsKinds \X (0..25)}

RowLens == {0, 1, 20, 21, 24, 25}

PositionRow(j) ==
    IF j % 2 = 1
    THEN FullRow("QTY_TEMPERATURE", NormalGroup, BnrhGroup, NormalGroup, "BOUNDED_NORMAL_RHF")
    ELSE FullRow("QTY_SPECIFIC_HUMIDITY", BnrhGroup, BnrhGroup, NormalGroup, "UNBOUNDED_RHF")

\* tables of 0, 2, .. MaxRows rows, each row cut to one of RowLens
RowTables ==
    UNION {{[j \in 1..n |-> Ragged(PositionRow(j), lens[j])] : lens \in [1..n -> RowLens]} :
              n \in {0} \cup (2..MaxRows)}

Tables ==
    {<<r>> : r \in FormatRows \cup RaggedRows} \cup RowTables

Files ==
    {[status |-> "missing", rows |-> <<>>], [status |-> "denied", rows |-> <<>>]}
    \cup {[status |-> "ok", rows |-> rs] :
             rs \in {<<>>, << <<>> >>, <<VersionRow>>, << <<>>, HeaderRow >>}}
    \cup {[status |-> "ok", rows |-> <<VersionRow, HeaderRow>> \o t] : t \in Tables}

----------------------------------------------------------------------------
(* main *)

FileNames == {"qceff_table.csv", "tables/v1.csv"}

\* every file under the first name, the unreadable ones under the other too
Init ==
    /\ filename \in FileNames
    /\ details \in BOOLEAN
    /\ fs \in Files
    /\ fs.status = "ok" => filename = "qceff_table.csv"
    /\ pc = "read"
    /\ table_data = NoTable
    /\ out = <<>>
    /\ i = 1
    /\ locals = NoLocals
    /\ exc = ""
    /\ exit_code = -1

\* the title printed before the file is read
main_read_TitleFirst ==
    /\ pc = "read"
    /\ LET r == read_qceff_table(fs, filename)
           title == <<"QCEFF Table Display", "File: " \o filename>>
       IN  IF r.raised = "FileNotFoundError"
           THEN /\ pc' = "except_FileNotFoundError"
                /\ exc' = r.msg
                /\ out' = out \o title
                /\ UNCHANGED table_data
           ELSE IF r.raised # ""
           THEN /\ pc' = "except_Exception"
                /\ exc' = r.msg
                /\ out' = out \o title
                /\ UNCHANGED table_data
           ELSE /\ table_data' = r.value
                /\ out' = out \o title \o <<"Version: " \o r.value.version>>
                /\ pc' = "summary_header"
                /\ UNCHANGED exc
    /\ UNCHANGED <<filename, details, fs, i, locals, exit_code>>

\* table_data = read_qceff_table(filename), then the three title lines
main_read ==
    /\ pc = "read"
    /\ LET r == read_qceff_table(fs, filename)
       IN  IF r.raised = "FileNotFoundError"
           THEN /\ pc' = "except_FileNotFoundError"
                /\ exc' = r.msg
                /\ UNCHANGED <<table_data, out>>
           ELSE IF r.raised # ""
           THEN /\ pc' = "except_Exception"
                /\ exc' = r.msg
                /\ UNCHANGED <<table_data, out>>
           ELSE /\ table_data' = r.value
                /\ out' = out \o <<"QCEFF Table Display", "File: " \o filename,
                                   "Version: " \o r.value.version>>
                /\ pc' = "summary_header"
                /\ UNCHANGED exc
    /\ UNCHANGED <<filename, details, fs, i, locals, exit_code>>

\* display_summary_table: the title, the header and the dashed separator
display_summary_header ==
    /\ pc = "summary_header"
    /\ out' = out \o <<"", Rule144, "SUMMARY TABLE", Rule144, SummaryHeader, SummaryDashes>>
    /\ i' = 1
    /\ pc' = "summary_rows"
    /\ UNCHANGED <<filename, details, fs, table_data, locals, exc, exit_code>>

\* display_summary_table: one iteration of "for row in data"
display_summary_row ==
    /\ pc = "summary_rows"
    /\ i <= Len(table_data.data)
    /\ LET row == table_data.data[i]
       IN  IF Len(row) = 0
           THEN /\ pc' = "except_Exception"
                /\ exc' = IndexError
                /\ UNCHANGED <<out, i, locals>>
           ELSE /\ locals' = summary_locals(row)
                /\ out' = Append(out, summary_line(locals'))
                /\ i' = i + 1
                /\ UNCHANGED <<pc, exc>>
    /\ UNCHANGED <<filename, details, fs, table_data, exit_code>>

\* display_summary_table returns; "if args.details:" is true
main_details_header ==
    /\ pc = "summary_rows"
    /\ i > Len(table_data.data)
    /\ details
    /\ out' = out \o <<"", Rule80, "DETAILED INFORMATION", Rule80>>
    /\ i' = 1
    /\ pc' = "detail_rows"
    /\ UNCHANGED <<filename, details, fs, table_data, locals, exc, exit_code>>

\* one iteration of "for row in table_data['data']"
main_detail_row ==
    /\ pc = "detail_rows"
    /\ i <= Len(table_data.data)
    /\ LET row == table_data.data[i]
       IN  IF Len(row) = 0
           THEN /\ pc' = "except_Exception"
                /\ exc' = IndexError
                /\ UNCHANGED <<out, i>>
           ELSE LET r == display_quantity_info(row[1], row)
                IN  /\ out' = out \o r.lines
                    /\ IF r.raised
                       THEN /\ pc' = "except_Exception"
                            /\ exc' = IndexError
                            /\ UNCHANGED i
                       ELSE /\ i' = i + 1
                            /\ UNCHANGED <<pc, exc>>
    /\ UNCHANGED <<filename, details, fs, table_data, locals, exit_code>>

\* the closing banner of the detail section, and main returns
main_details_footer ==
    /\ pc = "detail_rows"
    /\ i > Len(table_data.data)
    /\ out' = out \o <<"", Rule80, "END OF REPORT", Rule80>>
    /\ pc' = "exited"
    /\ exit_code' = 0
    /\ UNCHANGED <<filename, details, fs, table_data, i, locals, exc>>

\* "if args.details:" is false, and main returns
main_return ==
    /\ pc = "summary_rows"
    /\ i > Len(table_data.data)
    /\ ~details
    /\ pc' = "exited"
    /\ exit_code' = 0
    /\ UNCHANGED <<filename, details, fs, table_data, out, i, locals, exc>>

main_except_FileNotFoundError ==
    /\ pc = "except_FileNotFoundError"
    /\ out' = Append(out, "Error: File '" \o filename \o "' not found.")
    /\ pc' = "exited"
    /\ exit_code' = 1
    /\ UNCHANGED <<filename, details, fs, table_data, i, locals, exc>>

\* the handler without its sys.exit(1)
main_except_Exception_NoExit ==
    /\ pc = "except_Exception"
    /\ out' = Append(out, "Error processing file: " \o exc)
    /\ pc' = "exited"
    /\ exit_code' = 0
    /\ UNCHANGED <<filename, details, fs, table_data, i, locals, exc>>

main_except_Exception ==
    /\ pc = "except_Exception"
    /\ out' = Append(out, "Error processing file: " \o exc)
    /\ pc' = "exited"
    /\ exit_code' = 1
    /\ UNCHANGED <<filename, details, fs, table_data, i, locals, exc>>

Next ==
    \/ main_read
    \/ display_summary_header
    \/ display_summary_row
    \/ main_details_header
    \/ main_detail_row
    \/ main_details_footer
    \/ main_return
    \/ main_except_FileNotFoundError
    \/ main_except_Exception

Spec == Init /\ [][Next]_vars

----------------------------------------------------------------------------
(* Vocabulary of the properties *)

\* the file holds a version row with a first field, and a header row
WellFormed == fs.status = "ok" /\ Len(fs.rows) >= 2 /\ Len(fs.rows[1]) >= 1

\* the data rows of the file
Data == SubSeq(fs.rows, 3, Len(fs.rows))

StartsWith(x, prefix) == Len(x) >= Len(prefix) /\ SubSeq(x, 1, Len(prefix)) = prefix
EndsWith(x, suffix) ==
    Len(x) >= Len(suffix) /\ SubSeq(x, Len(x) - Len(suffix) + 1, Len(x)) = suffix

IsDiagnostic(x) == StartsWith(x, "Error")
IsBanner(x) == StartsWith(x, "QUANTITY: ")
IsDetailTitle(x) == x = "DETAILED INFORMATION"

\* the summary loop has just rendered a row: LastRow, into locals and LastLine
RowDone == pc = "summary_rows" /\ i > 1
LastRow == table_data.data[i - 1]
LastLine == out[Len(out)]

ProbitOffsets == {5, 10, 15}
ColumnOf(k) ==
    CASE k = 5 -> locals.probit_infl
      [] k = 10 -> locals.probit_state
      [] k = 15 -> locals.probit_ext

\* the label of the probit group at offset k, after alias substitution
LabelOf(row, k) ==
    PyReplace(FieldOr(row, k, "N/A"), "BOUNDED_NORMAL_RH_DISTRIBUTION", "BNRH_DISTRIBUTION")
IsNormalLabel(x) == PyUpper(PyStrip(x)) = "NORMAL_DISTRIBUTION"
Shortened(x) == IF Len(x) > 20 THEN SubSeq(x, 1, 18) \o ".." ELSE x

IsTrueFlag(x) == PyUpper(x) = "TRUE" \/ x = ".true."
Unbounded(x) == x = "" \/ PyLower(x) = "none" \/ x = "-888888"

\* "<label> <open><lower>,<upper><close>" of the group at offset k, from the
\* flags and bounds as given (below, above, lower, upper)
Bracketed(row, k, below, above, lower, upper) ==
    Shortened(LabelOf(row, k)) \o " "
    \o (IF IsTrueFlag(below) THEN "[" ELSE "(")
    \o (IF Unbounded(lower) THEN "-inf" ELSE lower) \o ","
    \o (IF Unbounded(upper) THEN "inf" ELSE upper)
    \o (IF IsTrueFlag(above) THEN "]" ELSE ")")

\* a leading "QTY_" removed, anything else kept
WithoutPrefix(name) ==
    IF StartsWith(name, "QTY_") THEN SubSeq(name, 5, Len(name)) ELSE name

----------------------------------------------------------------------------
(* C1: short or ragged data rows are never an error: whatever the lengths  *)
(* (0 to 25 fields) of the data rows of a readable table, and whether      *)
(* detail mode is on or off, the run ends with exit code 0.                *)
C1_RaggedRowsNeverAbort ==
    (pc = "exited" /\ WellFormed) => exit_code = 0

(* C2: every data row with fewer than 21 fields still gets a full summary  *)
(* line, whose obs-inc-info column is "N/A". Row j is looked at when the   *)
(* rows before it have a quantity name, so that only row j decides.        *)
C2_ShortRowFullLine ==
    \A j \in 1..Len(Data) :
        ( /\ pc = "exited"
          /\ WellFormed
          /\ Len(Data[j]) < 21
          /\ \A m \in 1..(j - 1) : Len(Data[m]) > 0 )
        => /\ Len(out) >= 9 + j
           /\ Len(out[9 + j]) >= 144
           /\ EndsWith(out[9 + j], " " \o PyLJust("N/A", 20))

(* C3: the quantity name rendered in the summary table is field 0 with a   *)
(* leading QTY_ removed, and field 0 unchanged when it has no such prefix;  *)
(* occurrences of QTY_ elsewhere in the name stay.                          *)
C3_PrefixOnly ==
    RowDone =>
        /\ locals.qty_name = WithoutPrefix(LastRow[1])
        /\ StartsWith(LastLine, PyLJust(WithoutPrefix(LastRow[1]), 30) \o " ")

(* C4 as stated: a probit group whose label is not NORMAL_DISTRIBUTION is   *)
(* rendered "<label> <open><lower>,<upper><close>", the brackets decided by *)
(* the flags as given and the bounds rendered verbatim (but for empty, none *)
(* and -888888).                                                            *)
C4_VerbatimBounds ==
    RowDone =>
        \A k \in ProbitOffsets :
            ~IsNormalLabel(LabelOf(LastRow, k)) =>
                ColumnOf(k) = Bracketed(LastRow, k,
                                FieldOr(LastRow, k + 1, ""), FieldOr(LastRow, k + 2, ""),
                                FieldOr(LastRow, k + 3, ""), FieldOr(LastRow, k + 4, ""))

(* C4 as amended: the same rendering, with the two flags and the two bounds *)
(* first stripped of the whitespace around them (the label is not).         *)
C4_StrippedBounds ==
    RowDone =>
        \A k \in ProbitOffsets :
            ~IsNormalLabel(LabelOf(LastRow, k)) =>
                ColumnOf(k) = Bracketed(LastRow, k,
                                PyStrip(FieldOr(LastRow, k + 1, "")),
                                PyStrip(FieldOr(LastRow, k + 2, "")),
                                PyStrip(FieldOr(LastRow, k + 3, "")),
                                PyStrip(FieldOr(LastRow, k + 4, "")))

\* the example of the specification, rendered
C4_Witness ==
    /\ RowDone
    /\ Len(LastRow) >= 10
    /\ SubSeq(LastRow, 6, 10) = BnrhGroup
    /\ locals.probit_infl = "BNRH_DISTRIBUTION [-inf,5.0)"

(* C5: a probit group whose label, after alias substitution, trimmed and    *)
(* upper-cased, is NORMAL_DISTRIBUTION is rendered as the label alone, cut  *)
(* to 18 characters and ".." when longer than 20, whatever its flags and    *)
(* bounds; the label NORMAL_DISTRIBUTION itself is rendered unchanged.      *)
C5_NormalHasNoBounds ==
    RowDone =>
        \A k \in ProbitOffsets :
            /\ IsNormalLabel(LabelOf(LastRow, k)) =>
                   ColumnOf(k) = Shortened(LabelOf(LastRow, k))
            /\ FieldOr(LastRow, k, "N/A") = "NORMAL_DISTRIBUTION" =>
                   ColumnOf(k) = "NORMAL_DISTRIBUTION"

\* a padded lower-case label with bounded flags: cut, and no bracket
C5_Witness ==
    /\ RowDone
    /\ Len(LastRow) >= 10
    /\ LastRow[6] = " normal_distribution " /\ LastRow[7] = " TRUE "
    /\ locals.probit_infl = " normal_distributi.."

(* C6: a label of more than 20 characters (a probit label after alias       *)
(* substitution, or the obs-inc-info kind) is rendered as its first 18      *)
(* characters and "..", 20 characters in all; a label of at most 20 is      *)
(* rendered unchanged. In a probit column the label is what precedes the    *)
(* bracket expression.                                                      *)
C6_LabelTruncation ==
    RowDone =>
        /\ \A k \in ProbitOffsets :
              LET label == LabelOf(LastRow, k)
                  shown == IF Len(label) > 20 THEN SubSeq(label, 1, 18) \o ".." ELSE label
              IN  /\ Len(label) > 20 => Len(shown) = 20
                  /\ \/ ColumnOf(k) = shown
                     \/ StartsWith(ColumnOf(k), shown \o " [")
                     \/ StartsWith(ColumnOf(k), shown \o " (")
        /\ LET kind == FieldOr(LastRow, 20, "N/A")
           IN  /\ Len(kind) > 20 =>
                      /\ locals.obs_inc_info = SubSeq(kind, 1, 18) \o ".."
                      /\ Len(locals.obs_inc_info) = 20
               /\ Len(kind) <= 20 => locals.obs_inc_info = kind
        /\ EndsWith(LastLine, " " \o PyLJust(locals.obs_inc_info, 20))

\* a 28-character probit label and a 33-character kind, both cut
C6_Witness ==
    /\ RowDone
    /\ Len(LastRow) >= 21
    /\ \/ /\ LastRow[6] = "PARTICLE_FILTER_DISTRIBUTION"
          /\ StartsWith(locals.probit_infl, "PARTICLE_FILTER_DI.. ")
       \/ /\ LastRow[21] = "ENSEMBLE_ADJUSTMENT_KALMAN_FILTER"
          /\ locals.obs_inc_info = "ENSEMBLE_ADJUSTMEN.."

(* C7 as stated: every data line of the summary table is as wide as the     *)
(* header line and the dashed line above it, whatever the row holds.        *)
C7_AllLinesHeaderWidth ==
    RowDone =>
        /\ Len(out[8]) = 144 /\ Len(out[9]) = 144
        /\ Len(LastLine) = Len(out[8])

(* C7 as amended: a data line is its five values, each left-aligned and     *)
(* padded to at least its column width (30, 30, 30, 30, 20), one space      *)
(* between them; a longer value is printed whole and widens the line, so    *)
(* the line is as wide as the header (144) exactly when the quantity name   *)
(* and the three probit columns are each at most 30 characters.             *)
C7_ColumnsPaddedNotCut ==
    RowDone =>
        LET q == locals.qty_name
            p1 == locals.probit_infl
            p2 == locals.probit_state
            p3 == locals.probit_ext
            o == locals.obs_inc_info
            W(x, w) == IF Len(x) > w THEN Len(x) ELSE w
        IN  /\ out[8] = SummaryHeader /\ Len(out[8]) = 144 /\ Len(out[9]) = 144
            /\ Len(o) <= 20
            /\ Len(LastLine) = W(q, 30) + W(p1, 30) + W(p2, 30) + W(p3, 30) + 20 + 4
            /\ SubSeq(LastLine, 1, W(q, 30) + 1) = q \o PyRepeat(" ", W(q, 30) - Len(q) + 1)
            /\ SubSeq(LastLine, W(q, 30) + 2, W(q, 30) + W(p1, 30) + 2)
                   = p1 \o PyRepeat(" ", W(p1, 30) - Len(p1) + 1)
            /\ SubSeq(LastLine, W(q, 30) + W(p1, 30) + 3, W(q, 30) + W(p1, 30) + W(p2, 30) + 3)
                   = p2 \o PyRepeat(" ", W(p2, 30) - Len(p2) + 1)
            /\ SubSeq(LastLine, Len(LastLine) - 20 - W(p3, 30), Len(LastLine) - 20)
                   = p3 \o PyRepeat(" ", W(p3, 30) - Len(p3) + 1)
            /\ SubSeq(LastLine, Len(LastLine) - 19, Len(LastLine))
                   = o \o PyRepeat(" ", 20 - Len(o))
            /\ (Len(LastLine) = Len(out[8]))
                   <=> (Len(q) <= 30 /\ Len(p1) <= 30 /\ Len(p2) <= 30 /\ Len(p3) <= 30)

\* a probit column of 31 characters: the line is wider than the header
C7_Witness ==
    /\ RowDone
    /\ Len(locals.probit_infl) > 30
    /\ Len(LastLine) > 144

(* C8: with detail mode off the output has no DETAILED INFORMATION section; *)
(* with it on, the output of a run over a readable table has exactly one,   *)
(* after the complete summary table, followed by one detail block per data  *)
(* row, in row order, each bannered with the row's full quantity name.      *)
C8_DetailSection ==
    (pc = "exited" /\ WellFormed) =>
        IF details
        THEN /\ Len(SelectSeq(out, IsDetailTitle)) = 1
             /\ Len(out) >= 9 + Len(Data) + 3
             /\ out[9 + Len(Data) + 3] = "DETAILED INFORMATION"
             /\ SelectSeq(out, IsBanner) = [j \in 1..Len(Data) |-> "QUANTITY: " \o Data[j][1]]
        ELSE SelectSeq(out, IsDetailTitle) = <<>>

(* C9: main ends in one of two ways: exit code 0, reading and rendering     *)
(* complete and no diagnostic printed; or exit code 1, exactly one          *)
(* diagnostic line printed, the last line of the output. For a missing file *)
(* the diagnostic names the path given. No exit code before main ends.      *)
C9_ExitOutcomes ==
    LET diag == SelectSeq(out, IsDiagnostic)
        n == Len(Data)
        complete ==
            /\ WellFormed
            /\ Len(out) - Len(diag) = 9 + n + (IF details THEN 8 + 38 * n ELSE 0)
    IN  /\ pc # "exited" => (exit_code = -1 /\ diag = <<>>)
        /\ pc = "exited" =>
              \/ /\ exit_code = 0
                 /\ diag = <<>>
                 /\ complete
              \/ /\ exit_code = 1
                 /\ Len(diag) = 1
                 /\ LastLine = diag[1]
                 /\ ~complete
                 /\ fs.status = "missing" =>
                        LastLine = "Error: File '" \o filename \o "' not found."
                 /\ fs.status # "missing" => StartsWith(LastLine, "Error processing file: ")

\* a run over a missing file has ended
C9_Witness ==
    /\ pc = "exited"
    /\ fs.status = "missing"
    /\ filename = "tables/v1.csv"
    /\ exit_code = 1
    /\ out = <<"Error: File 'tables/v1.csv' not found.">>

(* C10: nothing is printed before the file is read and split: when the      *)
(* reader fails (the file is missing or unreadable, or the CSV has fewer    *)
(* than two rows or an empty first row) the only output of the run is the   *)
(* diagnostic.                                                              *)
C10_NoOutputOnReadFailure ==
    /\ pc = "read" => out = <<>>
    /\ ~WellFormed =>
          /\ pc # "exited" => out = <<>>
          /\ pc = "exited" => (Len(out) = 1 /\ IsDiagnostic(out[1]) /\ exit_code = 1)

\* a CSV of one row: the run has ended with the diagnostic alone
C10_Witness ==
    /\ pc = "exited"
    /\ fs.status = "ok"
    /\ Len(fs.rows) = 1
    /\ out = <<"Error processing file: list index out of range">>

====
